---- MODULE Spec2Model ----
(***************************************************************************)
(* Model of TimerService (timer.service.ts) and its data model             *)
(* (timer.model.ts).                                                       *)
(*                                                                         *)
(* The service keeps a map id -> TimerData.  A TimerData holds the         *)
(* configured TimerState, two ReplaySubjects (monitor, ended) and the      *)
(* handle returned by window.setInterval.  The browser keeps the set of    *)
(* scheduled interval callbacks; each callback is a closure over           *)
(* (id, state, start).                                                     *)
(*                                                                         *)
(* Conventions                                                             *)
(*  - time is in milliseconds; a synchronous handler takes no time, so     *)
(*    the two "new Date()" reads of countdown/getDuration agree;           *)
(*  - a ReplaySubject created without a buffer size keeps every value      *)
(*    published on it, so a stream is the sequence of all its values;      *)
(*  - an interval handle is a positive integer; 0 stands for the falsy     *)
(*    values undefined and null of TimerData.interval;                     *)
(*  - "remaining" is kept in milliseconds (the code divides by 1000), and  *)
(*    percent = (remaining * 100) / value is kept as the exact fraction    *)
(*    num/den = remaining_ms / (value * 10).                               *)
(***************************************************************************)
EXTENDS Integers, Sequences, FiniteSets, TLC

\* ------------------------------------------------------------------ bounds
MaxCalls == 3
MaxFairCalls == 2
MaxTime == 1500

\* ---------------------------------------------------------- program values
TimerId == {"default", "confirm"}
defaultTimer == [id |-> "default", value |-> 56 * 60]
TickMs == 300

\* configured durations (seconds) offered to setTimer
Values == {0, 1, 86400}
\* amounts by which the clock advances between handlers
Delays == {TickMs}

VARIABLES S, component, calls, lastOp

vars == <<S, component, calls, lastOp>>

\* S is the state of the service and of the browser's interval table:
\*   timers      the map id -> TimerData of the service
\*   live        the scheduled setInterval callbacks, handle -> closure
\*               (id, state, start) and the instant it is next due
\*   nextHandle  the next handle window.setInterval returns
\*   discarded   the TimerData objects setTimer replaced, oldest first
\*   now         the clock
\* component is the lifecycle stage of AppComponent; calls counts the calls
\* made; lastOp records the handler that ran last, with the remaining time
\* its polling step computed.
timers == S.timers
live == S.live
nextHandle == S.nextHandle
discarded == S.discarded
now == S.now

\* ------------------------------------------------------------- date-fns
\* round-towards-zero division, as Math.trunc in differenceIn*
Trunc(a, b) == IF a >= 0 THEN a \div b ELSE -((-a) \div b)

\* intervalToDuration({start: from, end: to}) for spans below one month
\* (years and months are then absent); absent units are 0
intervalToDuration(from, to) ==
  LET ms == to - from
      days == Trunc(ms, 86400000)
      r1 == ms - days * 86400000
      hours == Trunc(r1, 3600000)
      r2 == r1 - hours * 3600000
      minutes == Trunc(r2, 60000)
      r3 == r2 - minutes * 60000
      seconds == Trunc(r3, 1000)
  IN [null |-> FALSE, days |-> days, hours |-> hours,
      minutes |-> minutes, seconds |-> seconds]

\* display: null
NullDisplay == [null |-> TRUE, days |-> 0, hours |-> 0, minutes |-> 0, seconds |-> 0]

\* percent: undefined
Undefined == [defined |-> FALSE, num |-> 0, den |-> 1]

\* ------------------------------------------------------------ the service
getTimer(s, id) == id \in DOMAIN s.timers

\* a fresh TimerData
TimerData(state) == [state |-> state, monitor |-> <<>>, ended |-> <<>>, interval |-> 0]

setTimer(s, state) ==
  [s EXCEPT
     !.timers = [i \in (DOMAIN s.timers) \cup {state.id} |->
                   IF i = state.id THEN TimerData(state) ELSE s.timers[i]],
     !.discarded = IF getTimer(s, state.id)
                   THEN Append(@, s.timers[state.id]) ELSE @]

\* clearInterval that cancels the callback but leaves timer.interval set
clearInterval_KeepHandle(s, id) ==
  IF ~getTimer(s, id) THEN s
  ELSE IF s.timers[id].interval # 0
       THEN [s EXCEPT
               !.live = [h \in (DOMAIN s.live) \ {s.timers[id].interval} |-> s.live[h]]]
       ELSE s

\* clearInterval that clears the interval of the default timer, whatever id
clearInterval_Default(s, id) ==
  IF ~getTimer(s, defaultTimer.id) THEN s
  ELSE IF s.timers[defaultTimer.id].interval # 0
       THEN [s EXCEPT
               !.live = [h \in (DOMAIN s.live) \ {s.timers[defaultTimer.id].interval}
                           |-> s.live[h]],
               !.timers[defaultTimer.id].interval = 0]
       ELSE s

clearInterval(s, id) ==
  IF ~getTimer(s, id) THEN s
  ELSE IF s.timers[id].interval # 0
       THEN [s EXCEPT
               !.live = [h \in (DOMAIN s.live) \ {s.timers[id].interval} |-> s.live[h]],
               !.timers[id].interval = 0]
       ELSE s

\* {...this.defaultTimerState, display: null}
IdleDisplay == [id |-> defaultTimer.id, value |-> defaultTimer.value,
                display |-> NullDisplay, percent |-> Undefined]

\* stop that publishes only when an interval was still set
stop_OnlyWhenRunning(s, id) ==
  IF ~getTimer(s, id) THEN s
  ELSE IF s.timers[id].interval = 0 THEN s
       ELSE LET s1 == clearInterval(s, id)
            IN [s1 EXCEPT !.timers[id].monitor = Append(@, IdleDisplay),
                          !.timers[id].ended = Append(@, TRUE)]

stop(s, id) ==
  IF ~getTimer(s, id) THEN s
  ELSE LET s1 == clearInterval(s, id)
       IN [s1 EXCEPT !.timers[id].monitor = Append(@, IdleDisplay),
                     !.timers[id].ended = Append(@, TRUE)]

hasValue(display) ==
  (~display.null) /\ (display.hours # 0 \/ display.minutes # 0 \/ display.seconds # 0)

\* update without the expiry branch: every computed display is broadcast
update_BroadcastOnly(s, id, state) ==
  IF ~getTimer(s, id) THEN s
  ELSE [s EXCEPT !.timers[id].monitor = Append(@, state)]

update(s, id, state) ==
  IF ~getTimer(s, id) THEN s
  ELSE IF ~hasValue(state.display)
       THEN stop(clearInterval(s, id), id)
       ELSE [s EXCEPT !.timers[id].monitor = Append(@, state)]

getDuration(start, nowT, state) ==
  LET end == start + state.value * 1000
  IN [display |-> intervalToDuration(nowT, end), remaining |-> end - nowT]

calculate(s, id, state, start) ==
  LET d == getDuration(start, s.now, state)
      percent == IF state.value # 0
                 THEN [defined |-> TRUE, num |-> d.remaining, den |-> state.value * 10]
                 ELSE Undefined
  IN update(s, id, [id |-> state.id, value |-> state.value,
                    display |-> d.display, percent |-> percent])

\* countdown that arms a new interval without clearing the previous one
countdown_NoClear(s, id, state) ==
  IF ~getTimer(s, id) THEN s
  ELSE LET start == s.now
           s2 == calculate(s, id, state, start)
           h == s2.nextHandle
       IN [s2 EXCEPT
             !.timers[id].interval = h,
             !.live = [k \in (DOMAIN s2.live) \cup {h} |->
                         IF k = h THEN [id |-> id, state |-> state, start |-> start,
                                        due |-> start + TickMs]
                         ELSE s2.live[k]],
             !.nextHandle = h + 1]

countdown(s, id, state) ==
  IF ~getTimer(s, id) THEN s
  ELSE LET start == s.now
           s1 == clearInterval(s, id)
           s2 == calculate(s1, id, state, start)
           h == s2.nextHandle
       IN [s2 EXCEPT
             !.timers[id].interval = h,
             !.live = [k \in (DOMAIN s2.live) \cup {h} |->
                         IF k = h THEN [id |-> id, state |-> state, start |-> start,
                                        due |-> start + TickMs]
                         ELSE s2.live[k]],
             !.nextHandle = h + 1]

\* start that registers the default configuration for an id it does not know
start_AutoRegister(s, id) ==
  LET s0 == IF getTimer(s, id) THEN s
            ELSE setTimer(s, [id |-> id, value |-> defaultTimer.value])
  IN countdown([s0 EXCEPT !.timers[id].ended = Append(@, FALSE)], id, s0.timers[id].state)

start(s, id) ==
  IF ~getTimer(s, id) THEN s
  ELSE countdown([s EXCEPT !.timers[id].ended = Append(@, FALSE)], id, s.timers[id].state)

reset(s, id) == start(s, id)

\* What a new subscriber of a ReplaySubject receives on subscribing: the
\* subjects are created by "new ReplaySubject<T>()", whose buffer size and
\* window time default to Infinity, so the whole buffer is replayed.
replay(buffer) == SubSeq(buffer, 1, Len(buffer))

\* of(null): the value null, which is no TimerStateDisplay
NullEmission == [null |-> TRUE]

\* The streams the calls return, as what a subscriber that subscribes on
\* return receives at once (values) and whether the stream then completes:
\* of(x) emits x and completes; a subject's observable replays and stays open.
startReturn(s, id) ==
  IF ~getTimer(s, id) THEN [values |-> <<NullEmission>>, complete |-> TRUE]
  ELSE [values |-> replay(start(s, id).timers[id].monitor), complete |-> FALSE]

stopReturn(s, id) ==
  IF ~getTimer(s, id) THEN [values |-> <<FALSE>>, complete |-> TRUE]
  ELSE [values |-> replay(stop(s, id).timers[id].ended), complete |-> FALSE]

resetReturn(s, id) == startReturn(s, id)

\* one firing of the setInterval callback h: () => this.calculate(id, state, start)
intervalCallback(s, h) ==
  LET c == s.live[h]
      s1 == calculate(s, c.id, c.state, c.start)
  IN IF h \in DOMAIN s1.live
     THEN [s1 EXCEPT !.live[h].due = @ + TickMs]
     ELSE s1

\* ---------------------------------------------------------------- actions
Install(r) == S' = r

Init ==
  /\ S = [timers |-> <<>>, live |-> <<>>, nextHandle |-> 1, discarded |-> <<>>, now |-> 0]
  /\ component = "created"
  /\ calls = 0
  /\ lastOp = [op |-> "init", id |-> "default", rem |-> 0]

SetTimer(id, v) ==
  /\ calls < MaxCalls
  /\ Install(setTimer(S, [id |-> id, value |-> v]))
  /\ calls' = calls + 1
  /\ UNCHANGED component
  /\ lastOp' = [op |-> "setTimer", id |-> id, rem |-> 0]

\* rem: the remaining time (ms) that the immediate calculate of countdown sees
Start(id) ==
  /\ calls < MaxCalls
  /\ Install(start(S, id))
  /\ calls' = calls + 1
  /\ UNCHANGED component
  /\ lastOp' = [op |-> "start", id |-> id,
                rem |-> IF getTimer(S, id) THEN timers[id].state.value * 1000 ELSE 0]

Stop(id) ==
  /\ calls < MaxCalls
  /\ Install(stop(S, id))
  /\ calls' = calls + 1
  /\ UNCHANGED component
  /\ lastOp' = [op |-> "stop", id |-> id, rem |-> 0]

Reset(id) ==
  /\ calls < MaxCalls
  /\ Install(reset(S, id))
  /\ calls' = calls + 1
  /\ UNCHANGED component
  /\ lastOp' = [op |-> "reset", id |-> id,
                rem |-> IF getTimer(S, id) THEN timers[id].state.value * 1000 ELSE 0]

\* AppComponent.ngOnInit: setTimer(defaultTimer); start(TimerId.default)
ngOnInit(s) == start(setTimer(s, defaultTimer), defaultTimer.id)

\* AppComponent.ngOnDestroy: stop(TimerId.default)
\* ngOnDestroy that does not stop the default timer
ngOnDestroy_NoStop(s) == s

ngOnDestroy(s) == stop(s, defaultTimer.id)

NgOnInit ==
  /\ component = "created"
  /\ calls < MaxCalls
  /\ Install(ngOnInit(S))
  /\ component' = "initialised"
  /\ calls' = calls + 1
  /\ lastOp' = [op |-> "ngOnInit", id |-> defaultTimer.id, rem |-> defaultTimer.value * 1000]

NgOnDestroy ==
  /\ component = "initialised"
  /\ calls < MaxCalls
  /\ Install(ngOnDestroy(S))
  /\ component' = "destroyed"
  /\ calls' = calls + 1
  /\ lastOp' = [op |-> "ngOnDestroy", id |-> defaultTimer.id, rem |-> 0]

Tick(h) ==
  /\ h \in DOMAIN live
  /\ live[h].due <= now
  /\ Install(intervalCallback(S, h))
  /\ UNCHANGED <<component, calls>>
  /\ lastOp' = [op |-> "tick", id |-> live[h].id,
                rem |-> getDuration(live[h].start, now, live[h].state).remaining]

\* the clock advances; a due callback runs before the clock moves on
Advance(d) ==
  /\ now + d <= MaxTime
  /\ \A h \in DOMAIN live : live[h].due > now
  /\ S' = [S EXCEPT !.now = @ + d]
  /\ UNCHANGED <<component, calls>>
  /\ lastOp' = [op |-> "advance", id |-> "default", rem |-> 0]

Next ==
  \/ \E id \in TimerId, v \in Values : SetTimer(id, v)
  \/ \E id \in TimerId : Start(id)
  \/ \E id \in TimerId : Stop(id)
  \/ \E id \in TimerId : Reset(id)
  \/ NgOnInit
  \/ NgOnDestroy
  \/ \E h \in DOMAIN live : Tick(h)
  \/ \E d \in Delays : Advance(d)

Spec == Init /\ [][Next]_vars

\* The runs in which the caller makes at most MaxFairCalls calls and then
\* leaves the service alone, while the browser keeps firing the interval
\* callbacks that are due and the clock keeps advancing.
FairNext ==
  \/ calls < MaxFairCalls /\ \E id \in TimerId, v \in Values : SetTimer(id, v)
  \/ calls < MaxFairCalls /\ \E id \in TimerId : Start(id)
  \/ calls < MaxFairCalls /\ \E id \in TimerId : Stop(id)
  \/ calls < MaxFairCalls /\ \E id \in TimerId : Reset(id)
  \/ calls < MaxFairCalls /\ NgOnInit
  \/ calls < MaxFairCalls /\ NgOnDestroy
  \/ \E h \in DOMAIN live : Tick(h)
  \/ \E d \in Delays : Advance(d)

FairSpec ==
  /\ Init
  /\ [][FairNext]_vars
  /\ WF_vars(\E h \in DOMAIN live : Tick(h))
  /\ WF_vars(\E d \in Delays : Advance(d))

\* The page is suspended for d ms (background tab, sleeping machine): the
\* clock moves on while no interval callback fires, and every scheduled
\* callback is due as soon as the page resumes.
Suspend(d) ==
  /\ now <= MaxTime
  /\ S' = [S EXCEPT !.now = @ + d,
                    !.live = [h \in DOMAIN live |-> [live[h] EXCEPT !.due = now + d]]]
  /\ UNCHANGED <<component, calls>>
  /\ lastOp' = [op |-> "suspend", id |-> "default", rem |-> 0]

\* a suspension that ends one tick before the default countdown's duration
Suspensions == {defaultTimer.value * 1000 - TickMs}

\* The root component as the only caller of its service: it is initialised
\* and later destroyed, the interval callbacks fire, the clock advances and
\* the page may be suspended once within the first MaxTime ms.
HostNext ==
  \/ NgOnInit
  \/ NgOnDestroy
  \/ \E h \in DOMAIN live : Tick(h)
  \/ \E d \in Delays : Advance(d)
  \/ \E d \in Suspensions : Suspend(d)

HostSpec == Init /\ [][HostNext]_vars

\* ------------------------------------------------------------- vocabulary
Last(seq) == seq[Len(seq)]

Registered(id) == id \in DOMAIN timers

\* the scheduled callbacks whose closure names id
CallbacksOf(id) == {h \in DOMAIN live : live[h].id = id}

\* the most recent transition of the record was start/reset: start pushes
\* false on ended, stop (by the caller or on expiry) pushes true, and a
\* fresh record has published nothing
Running(id) ==
  /\ Registered(id)
  /\ timers[id].ended # <<>>
  /\ Last(timers[id].ended) = FALSE

\* the operations that run the polling step; lastOp.rem is what it computed
PollOps == {"start", "reset", "ngOnInit", "tick"}
StartOps == {"start", "reset", "ngOnInit"}
StopOps == {"stop", "ngOnDestroy"}

\* the display of a countdown of state.value seconds with nothing elapsed
FullDisplay(state) ==
  [id |-> state.id, value |-> state.value,
   display |-> intervalToDuration(0, state.value * 1000),
   percent |-> IF state.value # 0
               THEN [defined |-> TRUE, num |-> state.value * 1000, den |-> state.value * 10]
               ELSE Undefined]

\* ------------------------------------------------------------------ C1
\* C1: at most one live scheduled polling callback per timer id, after any
\* sequence of setTimer, start, stop, reset calls and ticks.
C1_AtMostOneCallbackPerId ==
  \A id \in TimerId : Cardinality(CallbacksOf(id)) <= 1

\* ------------------------------------------------------------------ C2
\* C2: after setTimer on an id, until that record is started, no callback
\* ticks for the id and nothing is published on the record's streams (a
\* record that has published nothing on ended has been neither started nor
\* stopped since it was registered).
C2_RegisterCancelsPoll ==
  \A id \in DOMAIN timers :
    timers[id].ended = <<>> =>
      /\ CallbacksOf(id) = {}
      /\ timers[id].monitor = <<>>

\* ------------------------------------------------------------------ C3
\* C3 (as stated): for every registered id in every reachable state,
\* reset(id) and stop(id) followed by start(id) leave the same state:
\* the same poll handle and the same values on both streams.
C3_ResetEqualsStopThenStart ==
  \A id \in DOMAIN timers : reset(S, id) = start(stop(S, id), id)

\* the values a call appended to a stream that held old before it
Pushed(old, new) == SubSeq(new, Len(old) + 1, Len(new))

\* C3 (amended): reset(id) is start(id); compared with stop(id) followed by
\* start(id) it leaves the same poll handle, the same scheduled callbacks
\* and the same other records, and pushes the same values on both streams
\* except stop's idle display and stop's true, which reset does not push.
C3_ResetIsStartWithoutStopValues ==
  \A id \in DOMAIN timers :
    LET r == reset(S, id)
        q == start(stop(S, id), id)
        m0 == timers[id].monitor
        e0 == timers[id].ended
    IN /\ r.live = q.live
       /\ r.nextHandle = q.nextHandle
       /\ r.timers[id].interval = q.timers[id].interval
       /\ r.timers[id].state = q.timers[id].state
       /\ \A j \in DOMAIN timers \ {id} : r.timers[j] = q.timers[j]
       /\ q.timers[id].monitor = m0 \o <<IdleDisplay>> \o Pushed(m0, r.timers[id].monitor)
       /\ q.timers[id].ended = e0 \o <<TRUE>> \o Pushed(e0, r.timers[id].ended)
       /\ Last(r.timers[id].monitor) = Last(q.timers[id].monitor)
       /\ Last(r.timers[id].ended) = Last(q.timers[id].ended)

\* reset has just acted on a record whose countdown was running
C3_Witness ==
  /\ lastOp.op = "reset"
  /\ Registered(lastOp.id)
  /\ Len(timers[lastOp.id].ended) >= 2
  /\ timers[lastOp.id].ended[Len(timers[lastOp.id].ended) - 1] = FALSE
  /\ timers[lastOp.id].interval # 0

C5_IdleDisplayKeepsConfig ==
  \A id \in DOMAIN timers :
    \A i \in 1..Len(timers[id].monitor) :
      timers[id].monitor[i].display.null =>
        timers[id].monitor[i].value = timers[id].state.value

\* ------------------------------------------------------------------ C6
\* C6: for every registered id, the record's poll handle is non-null if and
\* only if the timer is Running.
C6_HandleIffRunning ==
  \A id \in DOMAIN timers : (timers[id].interval # 0) <=> Running(id)

\* ------------------------------------------------------------------ C7
\* C7: once a record's display stream has published, its latest display has
\* remaining = null if and only if the record has no poll handle.
C7_NullRemainingIffIdle ==
  \A id \in DOMAIN timers :
    timers[id].monitor # <<>> =>
      (Last(timers[id].monitor).display.null <=> timers[id].interval = 0)

\* ------------------------------------------------------------------ C8
\* a countdown of at least one second is running on the record of id
Counting(id) ==
  /\ Running(id)
  /\ timers[id].interval \in DOMAIN live
  /\ timers[id].state.value >= 1

\* the instant at which the countdown running on the record of id ends
Expiry(id) == live[timers[id].interval].start + timers[id].state.value * 1000

\* the record of id is idle after a stop: no poll handle, ended says true
Ended(id) ==
  /\ Registered(id)
  /\ timers[id].interval = 0
  /\ timers[id].ended # <<>>
  /\ Last(timers[id].ended) = TRUE

\* C8: a started timer of totalSeconds >= 1 that receives no further call
\* becomes idle without a stop call (poll handle cleared, true on ended)
\* while ticks keep firing, and is never still counting later than
\* totalSeconds plus one tick after its start.  The liveness half is stated
\* for the countdowns that end within MaxTime, once the caller has made its
\* MaxFairCalls calls.
C8_AutoExpiry ==
  \A id \in TimerId :
    [](Counting(id) =>
         /\ now <= Expiry(id) + TickMs
         /\ (calls = MaxFairCalls /\ Expiry(id) <= MaxTime) => <>Ended(id))

\* after the last call, a started countdown of at least one second has been
\* ended by a tick: ended holds start's false and then the expiry's true
C8_Witness ==
  /\ calls = MaxFairCalls
  /\ lastOp.op = "tick"
  /\ lastOp.rem < 1000
  /\ Ended(lastOp.id)
  /\ timers[lastOp.id].state.value >= 1
  /\ timers[lastOp.id].ended = <<FALSE, TRUE>>

\* ------------------------------------------------------------------ C9
\* C9: a polling step (at start or on a tick) that finds one second or more
\* remaining does not stop the timer: it broadcasts its display.
C9_StopOnlyWhenExpired ==
  (lastOp.op \in PollOps /\ Registered(lastOp.id) /\ lastOp.rem >= 1000) =>
    /\ timers[lastOp.id].monitor # <<>>
    /\ ~Last(timers[lastOp.id].monitor).display.null

\* ------------------------------------------------------------------ C10
\* C10: after start(id) on a record of totalSeconds >= 1, the first value a
\* subscriber of the returned display stream receives (the head of what the
\* stream replays) is the display of the full configured duration.
C10_FirstValueIsFullDuration ==
  (lastOp.op \in StartOps /\ Registered(lastOp.id)
     /\ timers[lastOp.id].state.value >= 1) =>
    /\ timers[lastOp.id].monitor # <<>>
    /\ Head(timers[lastOp.id].monitor) = FullDisplay(timers[lastOp.id].state)

\* ------------------------------------------------------------------ C11
\* C11: a display broadcast by a polling step for a timer of non-zero
\* totalSeconds carries percent = (elapsed / totalSeconds) * 100, where
\* elapsed = totalSeconds - remaining; in particular 0 at start.  (percent is
\* num / den with den = totalSeconds * 10 and num in milliseconds.)
C11_PercentIsElapsed ==
  (lastOp.op \in PollOps /\ Registered(lastOp.id)
     /\ timers[lastOp.id].monitor # <<>>
     /\ ~Last(timers[lastOp.id].monitor).display.null
     /\ Last(timers[lastOp.id].monitor).value # 0) =>
    LET d == Last(timers[lastOp.id].monitor)
    IN /\ d.percent.defined
       /\ d.percent.den = d.value * 10
       /\ d.percent.num = d.value * 1000 - lastOp.rem

\* ------------------------------------------------------------------ C12
\* a value emitted on a display stream that is a TimerStateDisplay
IsTimerStateDisplay(v) == "value" \in DOMAIN v

\* C12: on an id that has no record, start and reset return a stream that
\* emits no TimerStateDisplay and completes, stop returns a stream that emits
\* exactly false, and none of them changes the map, a record, a poll handle,
\* a stream or the scheduled callbacks.
C12_UnknownIdIsNoOp ==
  \A id \in TimerId \ DOMAIN timers :
    /\ start(S, id) = S
    /\ reset(S, id) = S
    /\ stop(S, id) = S
    /\ startReturn(S, id).complete
    /\ \A i \in 1..Len(startReturn(S, id).values) :
         ~IsTimerStateDisplay(startReturn(S, id).values[i])
    /\ resetReturn(S, id).complete
    /\ \A i \in 1..Len(resetReturn(S, id).values) :
         ~IsTimerStateDisplay(resetReturn(S, id).values[i])
    /\ stopReturn(S, id) = [values |-> <<FALSE>>, complete |-> TRUE]

\* start has just been called on an id without a record while the other id
\* has a record with a countdown running
C12_Witness ==
  /\ lastOp.op = "start"
  /\ ~Registered(lastOp.id)
  /\ \E other \in DOMAIN timers :
       /\ timers[other].interval \in DOMAIN live
       /\ timers[other].monitor # <<>>

\* ------------------------------------------------------------------ C13
\* C13: a subscriber that subscribes to a record's display stream or ended
\* stream after n >= 1 values were published receives, at subscription, only
\* the most recently published value.
C13_ReplayLatestOnly ==
  \A id \in DOMAIN timers :
    /\ timers[id].monitor # <<>> =>
         replay(timers[id].monitor) = <<Last(timers[id].monitor)>>
    /\ timers[id].ended # <<>> =>
         replay(timers[id].ended) = <<Last(timers[id].ended)>>

\* ------------------------------------------------------------------ C14
\* C14: for every registered id, a second stop(id) right after a first one
\* leaves the state the first one left (poll handle null, the same scheduled
\* callbacks, latest display idle, latest ended true, the other records
\* untouched) and pushes the same values as the first did.
C14_StopIdempotent ==
  \A id \in DOMAIN timers :
    LET a == stop(S, id)
        b == stop(a, id)
    IN /\ b.live = a.live
       /\ b.nextHandle = a.nextHandle
       /\ a.timers[id].interval = 0
       /\ b.timers[id].interval = 0
       /\ \A j \in DOMAIN timers \ {id} : b.timers[j] = a.timers[j]
       /\ a.timers[id].monitor # <<>>
       /\ a.timers[id].ended # <<>>
       /\ Last(b.timers[id].monitor) = Last(a.timers[id].monitor)
       /\ Last(b.timers[id].monitor).display.null
       /\ Last(b.timers[id].ended) = TRUE
       /\ Last(a.timers[id].ended) = TRUE
       /\ Pushed(a.timers[id].monitor, b.timers[id].monitor)
            = Pushed(timers[id].monitor, a.timers[id].monitor)
       /\ Pushed(a.timers[id].ended, b.timers[id].ended)
            = Pushed(timers[id].ended, a.timers[id].ended)

\* stop has been called twice in a row on a countdown that was running
C14_Witness ==
  /\ lastOp.op = "stop"
  /\ Registered(lastOp.id)
  /\ now = 0
  /\ timers[lastOp.id].ended = <<FALSE, TRUE, TRUE>>

\* ------------------------------------------------------------------ C15
\* C15: while the latest value on a record's ended stream is true (no start
\* or reset since), the latest display on its stream has null remaining and
\* no polling callback for that id is scheduled.
C15_EndedIsTerminal ==
  \A id \in DOMAIN timers :
    (timers[id].ended # <<>> /\ Last(timers[id].ended) = TRUE) =>
      /\ CallbacksOf(id) = {}
      /\ Last(timers[id].monitor).display.null

\* ------------------------------------------------------------------ C16
\* C16: a display that a tick broadcasts on a record that is counting down
\* shows the time between now and (anchor of the record's most recent start
\* or reset) + (the record's configured totalSeconds).
C16_AnchoredToLatestStart ==
  (lastOp.op = "tick" /\ Registered(lastOp.id)
     /\ timers[lastOp.id].interval \in DOMAIN live
     /\ timers[lastOp.id].monitor # <<>>
     /\ ~Last(timers[lastOp.id].monitor).display.null) =>
    LET rec == timers[lastOp.id]
    IN /\ Last(rec.monitor).value = rec.state.value
       /\ Last(rec.monitor).display
            = getDuration(live[rec.interval].start, now, rec.state).display

\* ------------------------------------------------------------------ C17
\* the record of id b and the callbacks scheduled for b are in r as in S
SameFor(b, r) ==
  /\ b \in DOMAIN r.timers
  /\ r.timers[b] = timers[b]
  /\ \A k \in CallbacksOf(b) : k \in DOMAIN r.live /\ r.live[k] = live[k]
  /\ \A k \in DOMAIN r.live : r.live[k].id = b => k \in CallbacksOf(b)

\* C17: from every reachable state, every call (setTimer, start, stop,
\* reset), every tick and every expiry-driven stop for an id a leaves the
\* record of every other registered id b, and b's scheduled callbacks, as
\* they were.
C17_IdsIndependent ==
  \A a \in TimerId : \A b \in DOMAIN timers \ {a} :
    /\ \A v \in Values : SameFor(b, setTimer(S, [id |-> a, value |-> v]))
    /\ SameFor(b, start(S, a))
    /\ SameFor(b, stop(S, a))
    /\ SameFor(b, reset(S, a))
    /\ \A h \in CallbacksOf(a) : SameFor(b, intervalCallback(S, h))

\* a callback of one id has just fired while the other id is counting down
C17_Witness ==
  /\ lastOp.op = "tick"
  /\ \E b \in DOMAIN timers \ {lastOp.id} :
       /\ timers[b].interval \in DOMAIN live
       /\ Running(b)

\* ------------------------------------------------------------------ C18
\* C18: when a polling step (the immediate one of start/reset or a tick)
\* ends a run by expiry, the true it pushes along with the idle display is
\* the first one since the false that announced the run.
C18_ExpiryEndsRunOnce ==
  (lastOp.op \in PollOps /\ Registered(lastOp.id)
     /\ timers[lastOp.id].monitor # <<>>
     /\ Last(timers[lastOp.id].monitor).display.null) =>
    LET e == timers[lastOp.id].ended
    IN /\ Len(e) >= 2
       /\ e[Len(e)] = TRUE
       /\ e[Len(e) - 1] = FALSE

\* ------------------------------------------------------------------ C19
\* C19: with the root component as the only caller, once ngOnDestroy has run
\* (after ngOnInit and any number of ticks) no callback for the default timer
\* is scheduled, the default record has no poll handle and the latest value
\* on its ended stream is true, whether or not the countdown had expired.
C19_TeardownReleasesCallback ==
  component = "destroyed" =>
    /\ Registered(defaultTimer.id)
    /\ CallbacksOf(defaultTimer.id) = {}
    /\ timers[defaultTimer.id].interval = 0
    /\ Last(timers[defaultTimer.id].ended) = TRUE

\* the component was destroyed after its countdown had expired on a tick
C19_Witness ==
  /\ component = "destroyed"
  /\ lastOp.op = "ngOnDestroy"
  /\ timers[defaultTimer.id].ended = <<FALSE, TRUE, TRUE>>

\* ------------------------------------------------------------------ C20
\* C20: a record that was replaced by a re-registration of its id, and on
\* whose ended stream start had pushed false, has had true pushed on that
\* same stream (nothing can be pushed on it later: the service no longer
\* holds the record).
C20_ReplacedRunWasEnded ==
  \A i \in 1..Len(discarded) :
    discarded[i].ended # <<>> => Last(discarded[i].ended) = TRUE

====
